---- MODULE Spec2Model ----
(***************************************************************************)
(* Model of bot_all_in_one.py: the Pulseem OTP synchronisation             *)
(* (get_last_sms_datetime, wait_for_otp_from_pulseem), the OTP step of the *)
(* login (maybe_handle_otp) and the part of main() that leads to it.       *)
(*                                                                         *)
(* Time is counted in abstract clock units.  A ReplyDate string is kept as *)
(* the record [fmt, t]: fmt says whether datetime.fromisoformat accepts it *)
(* and whether it carries a "Z"/UTC offset, t is the instant it denotes.   *)
(* A message text is a sequence of one-character strings.                  *)
(***************************************************************************)
EXTENDS Integers, Sequences, FiniteSets, TLC

\* ------------------------------------------------------------------ bounds
\* greatest instant a ReplyDate of the model denotes
MaxT == 2
\* greatest number of messages in one IncomingSmsReports list
MaxReports == 2
\* clock units the operator may keep input() blocked past the manual window
MaxOverrun == 1
\* the environment-configured waits, in clock units
OTP_INITIAL_DELAY_SECONDS == 1
OTP_MAX_WAIT_SECONDS == 2
OTP_POLL_SECONDS == 1
MANUAL_OTP_MAX_WAIT_SECONDS == 2
\* lookback_seconds of get_last_sms_datetime, in clock units
CheckpointLookback == 1
\* greatest number of date cells in the table
MaxCells == 3
\* greatest number of rows of the payments table
MaxRows == 2
\* greatest number of times the table is rendered anew during the flow
MaxRerenders == 1
\* greatest number of frames of the page
MaxFrames == 3
\* attempts of one robust_click (the setting CLICK_RETRIES, 5 when not set)
CLICK_RETRIES == 3
\* greatest number of changes of the target element during one robust_click
MaxDomChanges == 1
\* greatest number of configured sites
MaxSites == 2
\* the setting OTP_LOOKBACK_SECONDS (240 when not set)
OTP_LOOKBACK_SECONDS == 2

\* ------------------------------------------------------- characters, texts
Digits == {"0", "1", "2", "3", "4", "5", "6", "7", "8", "9"}
Letters == {"h", "i", "a", "_"}

IsDigit(c) == c \in Digits
\* \w of the regular expression: letters, digits and the underscore
IsWord(c) == c \in Digits \cup Letters

RECURSIVE DigitRunLen(_, _)
\* length of the maximal run of digits of s that starts at position i
DigitRunLen(s, i) ==
    IF i > Len(s) \/ ~IsDigit(s[i]) THEN 0 ELSE 1 + DigitRunLen(s, i + 1)

\* \b(\d{4,8})\b matches at position i
MatchAt(s, i) ==
    /\ i = 1 \/ ~IsWord(s[i - 1])
    /\ LET n == DigitRunLen(s, i)
       IN  /\ n >= 4
           /\ n <= 8
           /\ i + n > Len(s) \/ ~IsWord(s[i + n])

\* OTP_REGEX.search(text).group(1), <<>> when there is no match
OTP_REGEX_search(s) ==
    LET hits == {i \in 1..Len(s) : MatchAt(s, i)}
    IN  IF hits = {} THEN <<>>
        ELSE LET i == CHOOSE j \in hits : \A k \in hits : j <= k
             IN  SubSeq(s, i, i + DigitRunLen(s, i) - 1)

\* str.strip() of a line: leading and trailing blanks removed
RECURSIVE LStrip(_)
LStrip(s) == IF s # <<>> /\ Head(s) = " " THEN LStrip(Tail(s)) ELSE s
RECURSIVE RStrip(_)
RStrip(s) ==
    IF s # <<>> /\ s[Len(s)] = " " THEN RStrip(SubSeq(s, 1, Len(s) - 1)) ELSE s
Strip(s) == RStrip(LStrip(s))

TextCode1 == <<"1", "1", "1", "1">>
TextCode2 == <<"2", "2", "2", "2">>
TextNoCode == <<"h", "i", " ", "1", "2", "3">>
Texts == {TextCode1, TextCode2, TextNoCode}

\* ------------------------------------------------------------- timestamps
\* datetime.min, a naive datetime
datetime_min == [aware |-> FALSE, t |-> 0]
\* no datetime assigned yet
NoDt == [aware |-> FALSE, t |-> 0 - 1]

ReplyDates ==
    [fmt : {"iso", "isoZ"}, t : 1..MaxT] \cup {[fmt |-> "bad", t |-> 0]}

\* datetime.fromisoformat(s.replace("Z", "+00:00")), datetime.min on failure
parse_reply_date(s) ==
    CASE s.fmt = "iso" -> [aware |-> FALSE, t |-> s.t]
      [] s.fmt = "isoZ" -> [aware |-> TRUE, t |-> s.t]
      [] OTHER -> datetime_min

\* Python orders two datetimes only when both are naive or both are aware;
\* otherwise the comparison raises TypeError
Comparable(a, b) == a.aware = b.aware

Messages == [ReplyDate : ReplyDates, ReplyText : Texts]
NoMsg == [ReplyDate |-> [fmt |-> "none", t |-> 0], ReplyText |-> <<>>]

\* ------------------------------------------------- MessageSource responses
RECURSIVE SeqsUpTo(_, _)
\* the sequences over S of length at most n
SeqsUpTo(S, n) ==
    IF n = 0 THEN {<<>>}
    ELSE LET shorter == SeqsUpTo(S, n - 1)
         IN  shorter \cup {Append(q, x) : q \in shorter, x \in S}

ReportLists == SeqsUpTo(Messages, MaxReports)

\* the "error" texts of a response, lower-cased
ErrorTexts == {"no data found", "invalid api key", ""}

\* what get_incoming_sms_report can do: raise (network failure, HTTP error
\* status), or return the decoded body
Responses ==
    {[status |-> "exception", error |-> "", reports |-> <<>>]}
    \cup [status : {"fail"}, error : ErrorTexts, reports : {<<>>}]
    \cup [status : {"success"}, error : {""}, reports : ReportLists]
NoResp == [status |-> "none", error |-> "", reports |-> <<>>]

\* variants of NoDataReported: no error text counts as "no data"; every one does
NoDataNever(err) == FALSE
NoDataAlways(err) == TRUE

\* "no data" in err
NoDataReported(err) == err = "no data found"

\* -------------------------------------------------- get_last_sms_datetime
RECURSIVE MaxReplyDate(_, _, _)
\* max(parse_reply_date(m["ReplyDate"]) for m in reports) from position i on,
\* with cur the greatest so far; NoDt stands for the TypeError of a mixed
\* comparison
MaxReplyDate(reports, i, cur) ==
    IF i > Len(reports) THEN cur
    ELSE LET dt == parse_reply_date(reports[i].ReplyDate)
         IN  IF ~Comparable(dt, cur) THEN NoDt
             ELSE MaxReplyDate(reports, i + 1, IF dt.t > cur.t THEN dt ELSE cur)

\* the value get_last_sms_datetime returns for a response; NoDt when it raises
get_last_sms_datetime(resp) ==
    IF resp.status = "exception" THEN datetime_min
    ELSE IF resp.status # "success" THEN datetime_min
    ELSE IF resp.reports = <<>> THEN datetime_min
    ELSE MaxReplyDate(resp.reports, 2, parse_reply_date(resp.reports[1].ReplyDate))

\* ---------------------------------------------- wait_for_otp_from_pulseem
\* variant of InitialLastSeen: the checkpoint is ignored
InitialLastSeenMin(after_datetime) == datetime_min

\* last_seen_dt = after_datetime or datetime.min
InitialLastSeen(after_datetime) ==
    IF after_datetime = NoDt THEN datetime_min ELSE after_datetime

\* variant of IsFresh: dt_msg >= last_seen_dt
IsFreshOrEqual(dt_msg, last_seen_dt) == dt_msg.t >= last_seen_dt.t

\* dt_msg > last_seen_dt
IsFresh(dt_msg, last_seen_dt) == dt_msg.t > last_seen_dt.t

RECURSIVE ScanReports(_, _, _, _, _)
\* the loop over reports: newest_dt and the fresh list; err when a comparison
\* of a naive with an aware datetime raises TypeError
ScanReports(reports, i, last_seen_dt, newest_dt, fresh) ==
    IF i > Len(reports)
    THEN [err |-> FALSE, newest |-> newest_dt, fresh |-> fresh]
    ELSE LET dt_msg == parse_reply_date(reports[i].ReplyDate)
         IN  IF ~Comparable(dt_msg, newest_dt)
             THEN [err |-> TRUE, newest |-> newest_dt, fresh |-> fresh]
             ELSE ScanReports(reports, i + 1, last_seen_dt,
                              IF dt_msg.t > newest_dt.t THEN dt_msg ELSE newest_dt,
                              IF IsFresh(dt_msg, last_seen_dt)
                              THEN Append(fresh, reports[i]) ELSE fresh)

\* variant of AdvanceLastSeen: last_seen_dt is left as it was
KeepLastSeen(last_seen_dt, newest_dt) == last_seen_dt

\* last_seen_dt after the scan
AdvanceLastSeen(last_seen_dt, newest_dt) ==
    IF newest_dt.t > last_seen_dt.t THEN newest_dt ELSE last_seen_dt

\* variant of SortsBefore: oldest first
SortsBeforeAscending(m, x) ==
    parse_reply_date(m.ReplyDate).t < parse_reply_date(x.ReplyDate).t

\* m goes before x in the reverse sort
SortsBefore(m, x) ==
    parse_reply_date(m.ReplyDate).t > parse_reply_date(x.ReplyDate).t

\* m inserted in a list sorted newest first, after the entries of equal key
InsertSorted(sorted, m) ==
    LET later == {j \in 1..Len(sorted) : SortsBefore(m, sorted[j])}
        pos == IF later = {} THEN Len(sorted) + 1
               ELSE CHOOSE j \in later : \A k \in later : j <= k
    IN  SubSeq(sorted, 1, pos - 1) \o <<m>> \o SubSeq(sorted, pos, Len(sorted))

RECURSIVE SortNewestFirst(_)
\* sorted(fresh, key=parse_reply_date, reverse=True): stable
SortNewestFirst(fresh) ==
    IF fresh = <<>> THEN <<>>
    ELSE InsertSorted(SortNewestFirst(SubSeq(fresh, 1, Len(fresh) - 1)),
                      fresh[Len(fresh)])

\* the first message of the list whose text holds a code, NoMsg if none
FirstWithCode(fresh_sorted) ==
    LET hits == {j \in 1..Len(fresh_sorted) :
                    OTP_REGEX_search(fresh_sorted[j].ReplyText) # <<>>}
    IN  IF hits = {} THEN NoMsg
        ELSE fresh_sorted[CHOOSE j \in hits : \A k \in hits : j <= k]

\* ------------------------------------------------------------------ state
VARIABLES
    pc,                   \* where the run is
    now,                  \* the clock: time.time(), datetime.now()
    PULSEEM_API_KEY,      \* the environment holds an API key
    MANUAL_OTP_FALLBACK,  \* the environment enables the manual prompt
    otpSent,              \* the portal has sent the OTP SMS of this login
    otpInCheckpoint,      \* that SMS was among the messages of the checkpoint query
    checkpoint_dt,        \* maybe_handle_otp: the checkpoint, NoDt before it is set
    deadline,             \* wait_for_otp_from_pulseem: deadline
    last_seen_dt,         \* wait_for_otp_from_pulseem: last_seen_dt
    prev_seen_dt,         \* last_seen_dt when the latest poll began
    seen_max,             \* greatest instant among the messages polled so far
    resp,                 \* the latest MessageSource response
    lastStatus,           \* status and error of the latest poll's response
    fresh_sorted,         \* wait_for_otp_from_pulseem: fresh_sorted of the latest poll
    returned,             \* the message wait_for_otp_from_pulseem returned, or NoMsg
    queries,              \* polls wait_for_otp_from_pulseem has made
    sleeps,               \* poll sleeps wait_for_otp_from_pulseem has made
    onlyNoData,           \* every poll so far gave "no data" or an empty list
    autoError,            \* the exception the automatic path raised, or "none"
    manual_start,         \* maybe_handle_otp: start of the manual window
    prompted,             \* input() has been called
    otp,                  \* maybe_handle_otp: otp
    filled,               \* the OTP field has been filled
    submitted,            \* the OTP form has been submitted
    failure               \* the exception that left maybe_handle_otp, or "none"

\* two successive calls of get_last_sms_datetime against one MessageSource
VARIABLES
    ck_now,               \* the clock: datetime.now()
    inbox,                \* the messages the MessageSource holds, oldest first
    ck_calls,             \* the calls made so far: status, window, value returned
    ck_arrived            \* a message has arrived since the latest call

ckVars == <<ck_now, inbox, ck_calls, ck_arrived>>

\* the checkpoint scenario is not running
CkIdle ==
    /\ ck_now = 0
    /\ inbox = <<>>
    /\ ck_calls = <<>>
    /\ ck_arrived = FALSE

\* the scan for the latest date in run_payments_assembly_flow
VARIABLES
    sel_pc,               \* where the scan is
    sel_cells,            \* the date cells, in DOM order
    sel_i,                \* the loop index i, counted from 1
    best_cell,            \* best_cell: the index of the cell, 0 for None
    best_dt               \* best_dt

selVars == <<sel_pc, sel_cells, sel_i, best_cell, best_dt>>

\* datetime.min as a date
date_min == [y |-> 1, m |-> 1, d |-> 1]

\* the scan is not running
SelIdle ==
    /\ sel_pc = "idle"
    /\ sel_cells = <<>>
    /\ sel_i = 0
    /\ best_cell = 0
    /\ best_dt = date_min

\* run_payments_assembly_flow from the wait for the date cells on
VARIABLES
    fl_pc,                \* where the flow is
    fl_error,             \* what the flow raised, "" for nothing
    fl_table,             \* the rows of the table, in DOM order
    fl_winner,            \* the id of the row whose date cell won the scan
    fl_rerenders,         \* how many times the table was rendered anew
    fl_clicks,            \* the clicks that landed, oldest first
    fl_agent,             \* the agent cell that was read
    fl_popup,             \* the paid popup has opened
    fl_download           \* the Excel file has been saved

flVars == <<fl_pc, fl_error, fl_table, fl_winner, fl_rerenders, fl_clicks, fl_agent,
            fl_popup, fl_download>>

NoRead == [row |-> 0, text |-> <<>>]

\* the flow is not running
FlIdle ==
    /\ fl_pc = "idle"
    /\ fl_error = ""
    /\ fl_table = <<>>
    /\ fl_winner = 0
    /\ fl_rerenders = 0
    /\ fl_clicks = <<>>
    /\ fl_agent = NoRead
    /\ fl_popup = FALSE
    /\ fl_download = FALSE

\* click_favorite_report_link
VARIABLES
    fr_pc,                \* where the call is
    fr_error,             \* what the call raised, "" for nothing
    fr_frames,            \* page.frames: the main frame, then the iframes
    fr_rule,              \* the position of the selector being tried
    fr_calls,             \* what each find_first_locator_in_any_frame returned
    fr_hit,               \* fr, loc: the frame and the selector of the hit
    fr_clicks             \* the clicks on the report link that landed

frVars == <<fr_pc, fr_error, fr_frames, fr_rule, fr_calls, fr_hit, fr_clicks>>

\* None, None
NoHit == [frame |-> 0, rule |-> 0]

\* the call is not running
FrIdle ==
    /\ fr_pc = "idle"
    /\ fr_error = ""
    /\ fr_frames = <<>>
    /\ fr_rule = 0
    /\ fr_calls = <<>>
    /\ fr_hit = NoHit
    /\ fr_clicks = <<>>

\* robust_click and robust_click_in_frame
VARIABLES
    cl_pc,                \* where the call is
    cl_attempt,           \* attempt
    cl_attached,          \* the target is attached to the DOM
    cl_visible,           \* the target is visible
    cl_changes,           \* how many times the target has changed
    cl_scroll_failed,     \* scroll_into_view_if_needed raised in this attempt
    cl_normal_failed,     \* the attempt in which the normal click raised last
    cl_landed,            \* the clicks that landed: attempt and whether forced
    cl_cause,             \* what the except clause caught last
    cl_sleeps,            \* the backoff sleeps, in units of CLICK_RETRY_BASE_SLEEP
    cl_description,       \* description
    cl_error              \* the RuntimeError the call raised

clVars == <<cl_pc, cl_attempt, cl_attached, cl_visible, cl_changes, cl_scroll_failed,
            cl_normal_failed, cl_landed, cl_cause, cl_sleeps, cl_description, cl_error>>

\* no RuntimeError
NoError == [text |-> "", description |-> "", attempts |-> 0]

\* no call is running
ClIdle ==
    /\ cl_pc = "idle"
    /\ cl_attempt = 0
    /\ cl_attached = FALSE
    /\ cl_visible = FALSE
    /\ cl_changes = 0
    /\ cl_scroll_failed = FALSE
    /\ cl_normal_failed = 0
    /\ cl_landed = <<>>
    /\ cl_cause = ""
    /\ cl_sleeps = <<>>
    /\ cl_description = ""
    /\ cl_error = NoError

\* main: the loop over the sites
VARIABLES
    mn_pc,                \* where main is
    mn_n,                 \* len(SITES)
    mn_site,              \* the position of the site being processed
    mn_step,              \* the position of the step of the workflow to run next
    mn_sites,             \* what happened to each site
    mn_context_closed,    \* context.close() has been called
    mn_browser_closed     \* browser.close() has been called

mnVars == <<mn_pc, mn_n, mn_site, mn_step, mn_sites, mn_context_closed, mn_browser_closed>>

\* main is not running
MnIdle ==
    /\ mn_pc = "idle"
    /\ mn_n = 0
    /\ mn_site = 0
    /\ mn_step = 0
    /\ mn_sites = <<>>
    /\ mn_context_closed = FALSE
    /\ mn_browser_closed = FALSE

\* the query windows of wait_for_otp_from_pulseem
VARIABLES
    pl_pc,                \* where the call is
    pl_now,               \* the clock
    pl_start,             \* start
    pl_deadline,          \* deadline
    pl_queries            \* the queries sent: the window and the time of the iteration

plVars == <<pl_pc, pl_now, pl_start, pl_deadline, pl_queries>>

\* the call is not running
PlIdle ==
    /\ pl_pc = "idle"
    /\ pl_now = 0
    /\ pl_start = 0
    /\ pl_deadline = 0
    /\ pl_queries = <<>>

restVars == <<mnVars, plVars>>
RestIdle == MnIdle /\ PlIdle

extVars == <<ckVars, selVars, flVars, frVars, clVars, restVars>>
ExtIdle == CkIdle /\ SelIdle /\ FlIdle /\ FrIdle /\ ClIdle /\ RestIdle

vars == <<extVars, pc, now, PULSEEM_API_KEY, MANUAL_OTP_FALLBACK, otpSent, otpInCheckpoint,
          checkpoint_dt, deadline, last_seen_dt, prev_seen_dt, seen_max, resp,
          lastStatus, fresh_sorted, returned, queries, sleeps, onlyNoData,
          autoError, manual_start, prompted, otp, filled, submitted, failure>>

cfgVars == <<PULSEEM_API_KEY, MANUAL_OTP_FALLBACK>>
smsVars == <<otpSent, otpInCheckpoint>>
waitVars == <<deadline, last_seen_dt, prev_seen_dt, seen_max, lastStatus,
              fresh_sorted, returned, queries, sleeps, onlyNoData>>
manualVars == <<manual_start, prompted>>
pageVars == <<filled, submitted>>

\* the login scenario is not running
OtpIdle ==
    /\ pc = "idle"
    /\ now = 0
    /\ PULSEEM_API_KEY = TRUE
    /\ MANUAL_OTP_FALLBACK = TRUE
    /\ otpSent = FALSE
    /\ otpInCheckpoint = FALSE
    /\ checkpoint_dt = NoDt
    /\ deadline = 0
    /\ last_seen_dt = NoDt
    /\ prev_seen_dt = NoDt
    /\ seen_max = 0
    /\ resp = NoResp
    /\ lastStatus = <<"none", "">>
    /\ fresh_sorted = <<>>
    /\ returned = NoMsg
    /\ queries = 0
    /\ sleeps = 0
    /\ onlyNoData = TRUE
    /\ autoError = "none"
    /\ manual_start = 0
    /\ prompted = FALSE
    /\ otp = <<>>
    /\ filled = FALSE
    /\ submitted = FALSE
    /\ failure = "none"

otpVars == <<pc, now, cfgVars, smsVars, checkpoint_dt, waitVars, resp, autoError,
             manualVars, otp, pageVars, failure>>

\* what the actions of one flow leave alone
ckOthers == <<otpVars, selVars, flVars, frVars, clVars, restVars>>
selOthers == <<otpVars, ckVars, flVars, frVars, clVars, restVars>>
flOthers == <<otpVars, ckVars, frVars, clVars, restVars>>
frOthers == <<otpVars, ckVars, selVars, flVars, clVars, restVars>>
mnOthers == <<otpVars, ckVars, selVars, flVars, frVars, clVars, plVars>>
plOthers == <<otpVars, ckVars, selVars, flVars, frVars, clVars, mnVars>>
clOthers == <<otpVars, ckVars, selVars, flVars, frVars, restVars>>

Init ==
    /\ ExtIdle
    /\ pc = "preflight"
    /\ now = 0
    /\ PULSEEM_API_KEY \in BOOLEAN
    /\ MANUAL_OTP_FALLBACK \in BOOLEAN
    /\ otpSent = FALSE
    /\ otpInCheckpoint = FALSE
    /\ checkpoint_dt = NoDt
    /\ deadline = 0
    /\ last_seen_dt = NoDt
    /\ prev_seen_dt = NoDt
    /\ seen_max = 0
    /\ resp = NoResp
    /\ lastStatus = <<"none", "">>
    /\ fresh_sorted = <<>>
    /\ returned = NoMsg
    /\ queries = 0
    /\ sleeps = 0
    /\ onlyNoData = TRUE
    /\ autoError = "none"
    /\ manual_start = 0
    /\ prompted = FALSE
    /\ otp = <<>>
    /\ filled = FALSE
    /\ submitted = FALSE
    /\ failure = "none"

\* ------------------------------------------------------------------- main
\* preflight_check_pulseem_or_die: the run stops unless the key is set and
\* the vendor answers success or "no data"
Preflight ==
    /\ pc = "preflight"
    /\ \E r \in Responses :
          pc' = IF /\ PULSEEM_API_KEY
                   /\ r.status # "exception"
                   /\ r.status = "success" \/ NoDataReported(r.error)
                THEN "login" ELSE "aborted"
    /\ UNCHANGED <<extVars, now, cfgVars, smsVars, checkpoint_dt, waitVars, resp, autoError,
                   manualVars, otp, pageVars, failure>>

\* page.goto .. click_submit_button: the login form is submitted, or a step
\* of it raises
LoginSubmit ==
    /\ pc = "login"
    /\ \E ok \in BOOLEAN :
          IF ok THEN pc' = "otp_detect" /\ failure' = failure
          ELSE pc' = "site_failed" /\ failure' = "LoginError"
    /\ UNCHANGED <<extVars, now, cfgVars, smsVars, checkpoint_dt, waitVars, resp, autoError,
                   manualVars, otp, pageVars>>

\* the SMS the portal sends for a login: the newest message there is
OtpSms == [ReplyDate |-> [fmt |-> "iso", t |-> MaxT], ReplyText |-> TextCode1]

\* the portal, once the login form is submitted, sends the OTP SMS
PortalSendsOtp ==
    /\ pc \in {"otp_detect", "otp_delay", "otp_auth", "otp_checkpoint"}
    /\ ~otpSent
    /\ otpSent' = TRUE
    /\ UNCHANGED <<extVars, pc, now, cfgVars, otpInCheckpoint, checkpoint_dt, waitVars, resp,
                   autoError, manualVars, otp, pageVars, failure>>

\* ------------------------------------------------------- maybe_handle_otp
\* page.wait_for_selector(otp_input): the OTP screen shows, or PWTimeout (no
\* OTP asked, return), or another error of the page
OtpDetect ==
    /\ pc = "otp_detect"
    /\ \E r \in {"shown", "PWTimeout", "error"} :
          /\ pc' = CASE r = "shown" -> "otp_delay"
                     [] r = "PWTimeout" -> "otp_done"
                     [] OTHER -> "site_failed"
          /\ failure' = IF r = "error" THEN "PageError" ELSE failure
    /\ UNCHANGED <<extVars, now, cfgVars, smsVars, checkpoint_dt, waitVars, resp, autoError,
                   manualVars, otp, pageVars>>

\* time.sleep(OTP_INITIAL_DELAY_SECONDS)
OtpInitialDelay ==
    /\ pc = "otp_delay"
    /\ now' = now + OTP_INITIAL_DELAY_SECONDS
    /\ pc' = "otp_auth"
    /\ UNCHANGED <<extVars, cfgVars, smsVars, checkpoint_dt, waitVars, resp, autoError,
                   manualVars, otp, pageVars, failure>>

\* build_pulseem_auth_from_env
BuildAuth ==
    /\ pc = "otp_auth"
    /\ IF PULSEEM_API_KEY
       THEN pc' = "otp_checkpoint" /\ autoError' = autoError
       ELSE pc' = "otp_except" /\ autoError' = "RuntimeError"
    /\ UNCHANGED <<extVars, now, cfgVars, smsVars, checkpoint_dt, waitVars, resp,
                   manualVars, otp, pageVars, failure>>

\* checkpoint_dt = get_last_sms_datetime(...)
Checkpoint ==
    /\ pc = "otp_checkpoint"
    /\ \E r \in Responses :
          LET v == get_last_sms_datetime(r)
          IN  /\ resp' = r
              /\ otpInCheckpoint' =
                    /\ otpSent
                    /\ \E i \in 1..Len(r.reports) : r.reports[i] = OtpSms
              /\ IF v = NoDt
                 THEN /\ pc' = "otp_except"
                      /\ autoError' = "TypeError"
                      /\ checkpoint_dt' = checkpoint_dt
                 ELSE /\ pc' = "wait_begin"
                      /\ autoError' = autoError
                      /\ checkpoint_dt' = v
    /\ UNCHANGED <<extVars, now, cfgVars, otpSent, waitVars, manualVars, otp, pageVars, failure>>

\* wait_for_otp_from_pulseem up to its loop: deadline and last_seen_dt
AwaitBegin ==
    /\ pc = "wait_begin"
    /\ deadline' = now + OTP_MAX_WAIT_SECONDS
    /\ last_seen_dt' = InitialLastSeen(checkpoint_dt)
    /\ prev_seen_dt' = InitialLastSeen(checkpoint_dt)
    /\ seen_max' = 0
    /\ resp' = NoResp
    /\ pc' = "wait_check"
    /\ UNCHANGED <<extVars, now, cfgVars, smsVars, checkpoint_dt, lastStatus, fresh_sorted,
                   returned, queries, sleeps, onlyNoData, autoError, manualVars,
                   otp, pageVars, failure>>

\* while time.time() < deadline .. raise TimeoutError
WaitLoopCheck ==
    /\ pc = "wait_check"
    /\ IF now < deadline
       THEN pc' = "wait_query" /\ autoError' = autoError
       ELSE pc' = "otp_except" /\ autoError' = "TimeoutError"
    /\ UNCHANGED <<extVars, now, cfgVars, smsVars, checkpoint_dt, waitVars, resp,
                   manualVars, otp, pageVars, failure>>

\* the greatest instant of the messages of a list, 0 if there is none
MaxInstant(reports) ==
    LET ts == {parse_reply_date(reports[i].ReplyDate).t : i \in 1..Len(reports)}
    IN  IF ts = {} THEN 0 ELSE CHOOSE x \in ts : \A y \in ts : y <= x

\* what one poll does with the response r: the exception it raises or
\* "none", whether it sleeps, and the values of its locals
PollResult(r, last_seen) ==
    LET scan == ScanReports(r.reports, 1, last_seen, last_seen, <<>>)
        sorted == SortNewestFirst(scan.fresh)
        hit == FirstWithCode(sorted)
        quiet == [raise |-> "none", sleep |-> TRUE, last |-> last_seen,
                  fresh |-> <<>>, hit |-> NoMsg]
    IN  IF r.status = "exception" THEN [quiet EXCEPT !.raise = "RequestException",
                                                    !.sleep = FALSE]
        ELSE IF r.status # "success"
        THEN IF NoDataReported(r.error) THEN quiet
             ELSE [quiet EXCEPT !.raise = "RuntimeError", !.sleep = FALSE]
        ELSE IF r.reports = <<>> THEN quiet
        ELSE IF scan.err THEN [quiet EXCEPT !.raise = "TypeError", !.sleep = FALSE]
        ELSE [raise |-> "none", sleep |-> hit = NoMsg,
              last |-> AdvanceLastSeen(last_seen, scan.newest),
              fresh |-> sorted, hit |-> hit]

\* one iteration of the loop of wait_for_otp_from_pulseem, up to its return,
\* its raise or its sleep
WaitPoll ==
    /\ pc = "wait_query"
    /\ \E r \in Responses :
          LET res == PollResult(r, last_seen_dt)
          IN  /\ resp' = r
              /\ lastStatus' = <<r.status, r.error>>
              /\ queries' = queries + 1
              /\ onlyNoData' = /\ onlyNoData
                               /\ \/ r.status = "fail" /\ r.error = "no data found"
                                  \/ r.status = "success" /\ r.reports = <<>>
              /\ prev_seen_dt' = last_seen_dt
              /\ seen_max' = IF MaxInstant(r.reports) > seen_max
                             THEN MaxInstant(r.reports) ELSE seen_max
              /\ last_seen_dt' = res.last
              /\ fresh_sorted' = res.fresh
              /\ returned' = res.hit
              /\ otp' = IF res.hit = NoMsg THEN otp
                        ELSE OTP_REGEX_search(res.hit.ReplyText)
              /\ autoError' = IF res.raise = "none" THEN autoError ELSE res.raise
              /\ pc' = IF res.raise # "none" THEN "otp_except"
                       ELSE IF res.sleep THEN "wait_sleep"
                       ELSE "otp_fill"
    /\ UNCHANGED <<extVars, now, cfgVars, smsVars, checkpoint_dt, deadline, sleeps,
                   manualVars, pageVars, failure>>

\* time.sleep(poll_every_seconds)
WaitSleep ==
    /\ pc = "wait_sleep"
    /\ now' = now + OTP_POLL_SECONDS
    /\ sleeps' = sleeps + 1
    /\ resp' = NoResp
    /\ fresh_sorted' = <<>>
    /\ pc' = "wait_check"
    /\ lastStatus' = <<"none", "">>
    /\ prev_seen_dt' = last_seen_dt
    /\ UNCHANGED <<extVars, cfgVars, smsVars, checkpoint_dt, deadline, last_seen_dt,
                   seen_max, returned, queries, onlyNoData, autoError,
                   manualVars, otp, pageVars, failure>>

\* variant of FallbackEnabled: the prompt is offered whatever the setting
FallbackAlways(manual_fallback) == TRUE

\* the manual fallback is taken: if not MANUAL_OTP_FALLBACK: raise
FallbackEnabled(manual_fallback) == manual_fallback

\* except Exception: re-raise, or start the manual window
OtpExcept ==
    /\ pc = "otp_except"
    /\ IF ~FallbackEnabled(MANUAL_OTP_FALLBACK)
       THEN /\ pc' = "site_failed"
            /\ failure' = autoError
            /\ manual_start' = manual_start
       ELSE /\ pc' = "manual_check"
            /\ failure' = failure
            /\ manual_start' = now
    /\ resp' = NoResp
    /\ fresh_sorted' = <<>>
    /\ UNCHANGED <<extVars, now, cfgVars, smsVars, checkpoint_dt, deadline, last_seen_dt,
                   prev_seen_dt, seen_max, lastStatus, returned, queries, sleeps,
                   onlyNoData, autoError, prompted, otp, pageVars>>

\* the lines the operator may type at the prompt
ManualLines == {<<>>, <<" ">>, <<" ", "7", "7", "7", "7", " ">>}

\* while time.time() - start < MANUAL_OTP_MAX_WAIT_SECONDS: call input();
\* once the loop ends with manual empty: raise TimeoutError
ManualLoopCheck ==
    /\ pc = "manual_check"
    /\ IF now - manual_start < MANUAL_OTP_MAX_WAIT_SECONDS
       THEN pc' = "manual_input" /\ prompted' = TRUE /\ failure' = failure
       ELSE pc' = "site_failed" /\ prompted' = prompted
            /\ failure' = "ManualTimeoutError"
    /\ UNCHANGED <<extVars, now, cfgVars, smsVars, checkpoint_dt, waitVars, resp, autoError,
                   manual_start, otp, pageVars>>

\* input() blocks while the operator types nothing
ManualBlocked ==
    /\ pc = "manual_input"
    /\ now < manual_start + MANUAL_OTP_MAX_WAIT_SECONDS + MaxOverrun
    /\ now' = now + 1
    /\ UNCHANGED <<extVars, pc, cfgVars, smsVars, checkpoint_dt, waitVars, resp, autoError,
                   manualVars, otp, pageVars, failure>>

\* input() returns a line (manual = line.strip(); break if not empty; then
\* otp = manual), or raises EOFError when standard input is closed
ManualInput ==
    /\ pc = "manual_input"
    /\ \/ \E line \in ManualLines :
             LET manual == Strip(line)
             IN  /\ otp' = IF manual # <<>> THEN manual ELSE otp
                 /\ pc' = IF manual # <<>> THEN "otp_fill" ELSE "manual_check"
                 /\ failure' = failure
       \/ /\ pc' = "site_failed"
          /\ failure' = "EOFError"
          /\ otp' = otp
    /\ UNCHANGED <<extVars, now, cfgVars, smsVars, checkpoint_dt, waitVars, resp, autoError,
                   manualVars, pageVars>>

\* if not otp: raise; page.fill(otp_input, ""); page.fill(otp_input, otp)
OtpFill ==
    /\ pc = "otp_fill"
    /\ \E ok \in BOOLEAN :
          IF otp = <<>>
          THEN pc' = "site_failed" /\ failure' = "RuntimeError" /\ filled' = filled
          ELSE IF ok
          THEN pc' = "otp_submit" /\ failure' = failure /\ filled' = TRUE
          ELSE pc' = "site_failed" /\ failure' = "PageError" /\ filled' = filled
    /\ resp' = NoResp
    /\ fresh_sorted' = <<>>
    /\ UNCHANGED <<extVars, now, cfgVars, smsVars, checkpoint_dt, deadline, last_seen_dt,
                   prev_seen_dt, seen_max, lastStatus, returned, queries, sleeps,
                   onlyNoData, autoError, manualVars, otp, submitted>>

\* robust_click(page, locator=submit, ...): the click lands, or every attempt
\* fails and it raises
OtpSubmit ==
    /\ pc = "otp_submit"
    /\ \E ok \in BOOLEAN :
          IF ok
          THEN pc' = "otp_done" /\ failure' = failure /\ submitted' = TRUE
          ELSE pc' = "site_failed" /\ failure' = "ClickError"
               /\ submitted' = submitted
    /\ UNCHANGED <<extVars, now, cfgVars, smsVars, checkpoint_dt, waitVars, resp, autoError,
                   manualVars, otp, filled>>

Next ==
    \/ Preflight
    \/ LoginSubmit
    \/ PortalSendsOtp
    \/ OtpDetect
    \/ OtpInitialDelay
    \/ BuildAuth
    \/ Checkpoint
    \/ AwaitBegin
    \/ WaitLoopCheck
    \/ WaitPoll
    \/ WaitSleep
    \/ OtpExcept
    \/ ManualLoopCheck
    \/ ManualBlocked
    \/ ManualInput
    \/ OtpFill
    \/ OtpSubmit

Spec == Init /\ [][Next]_vars

\* ----------------------------------------------------------- properties
\* the instant a ReplyDate string denotes, read off the string itself
InstantOf(m) == IF m.ReplyDate.fmt = "bad" THEN 0 ELSE m.ReplyDate.t
HasCode(m) == OTP_REGEX_search(m.ReplyText) # <<>>
Reports == {resp.reports[i] : i \in 1..Len(resp.reports)}
\* a poll of wait_for_otp_from_pulseem has just processed a list of messages
\* and neither raised nor failed
CycleDone ==
    /\ pc \in {"wait_sleep", "otp_fill"}
    /\ resp.status = "success"
    /\ resp.reports # <<>>
InAwait == pc \in {"wait_check", "wait_query", "wait_sleep"}

\* C1: wait_for_otp_from_pulseem called with after_datetime = C never returns
\* a message whose parsed timestamp is at or before C; a message whose
\* ReplyDate does not parse is never returned.
C1_NeverReturnsStale ==
    returned # NoMsg =>
        /\ returned.ReplyDate.fmt \in {"iso", "isoZ"}
        /\ (returned.ReplyDate.fmt = "isoZ") = checkpoint_dt.aware
        /\ returned.ReplyDate.t > checkpoint_dt.t

\* a code is returned from a poll that also held a code-bearing message that
\* is stale or has an unparseable date
C1_Witness ==
    /\ pc = "otp_fill"
    /\ returned # NoMsg
    /\ checkpoint_dt.t >= 1
    /\ \E m \in Reports : HasCode(m) /\ InstantOf(m) <= checkpoint_dt.t

\* C2: within one poll cycle the returned code is that of the fresh message
\* with the greatest timestamp among the fresh messages that hold a code; a
\* newer fresh message without a code does not block it, and there is a
\* return whenever a fresh message holds a code.
C2_NewestFreshCodeWins ==
    CycleDone =>
        LET freshCodes == {m \in Reports :
                              HasCode(m) /\ InstantOf(m) > prev_seen_dt.t}
        IN  IF freshCodes = {}
            THEN returned = NoMsg /\ pc = "wait_sleep"
            ELSE /\ pc = "otp_fill"
                 /\ returned \in freshCodes
                 /\ \A m \in freshCodes : InstantOf(m) <= InstantOf(returned)
                 /\ otp = OTP_REGEX_search(returned.ReplyText)

\* the code of an older fresh message is returned although a newer fresh
\* message without a code came in the same poll
C2_Witness ==
    /\ CycleDone
    /\ returned # NoMsg
    /\ \E m \in Reports : ~HasCode(m) /\ InstantOf(m) > InstantOf(returned)

\* C3: the checkpoint is established before the first poll of
\* wait_for_otp_from_pulseem, and no message at or before the checkpoint is
\* accepted as fresh by that call.
C3_CheckpointBeforePolling ==
    /\ (InAwait \/ pc = "wait_begin" \/ queries > 0) => checkpoint_dt # NoDt
    /\ \A i \in 1..Len(fresh_sorted) :
          InstantOf(fresh_sorted[i]) > checkpoint_dt.t

\* a poll returned a message that the checkpoint had counted together with a
\* fresh one: only the fresh one is accepted
C3_Witness ==
    /\ CycleDone
    /\ checkpoint_dt.t >= 1
    /\ fresh_sorted # <<>>
    /\ \E m \in Reports : m.ReplyDate.fmt # "bad" /\ InstantOf(m) <= checkpoint_dt.t

\* C4: the checkpoint is the newest message instant observed before the OTP
\* request was issued: the OTP SMS this login triggers is never among the
\* messages the checkpoint is computed from, so it is never classified stale.
C4_CheckpointBeforeOtpRequest ==
    checkpoint_dt # NoDt =>
        ~(otpInCheckpoint /\ InstantOf(OtpSms) <= checkpoint_dt.t)

\* wait_for_otp_from_pulseem has begun and has not raised or returned
AwaitStarted == checkpoint_dt # NoDt /\ pc # "wait_begin"

\* C5: while every response is a non-success "no data" or a success with an
\* empty list, wait_for_otp_from_pulseem keeps polling (every poll is followed
\* by a sleep and the loop test), raises no vendor error and returns nothing;
\* it ends only with TimeoutError, and only once the deadline has passed.
C5_NoDataEndsInTimeout ==
    (AwaitStarted /\ onlyNoData) =>
        /\ autoError \in {"none", "TimeoutError"}
        /\ returned = NoMsg
        /\ autoError = "TimeoutError" => now >= deadline
        /\ autoError = "none" =>
              /\ InAwait
              /\ sleeps = IF pc = "wait_sleep" THEN queries - 1 ELSE queries

\* two or more polls reported "no data" or nothing and the call timed out
C5_Witness ==
    /\ AwaitStarted
    /\ onlyNoData
    /\ queries >= 2
    /\ autoError = "TimeoutError"
    /\ lastStatus = <<"none", "">>

\* the latest poll got a non-success response whose error is not "no data"
GenuineError == lastStatus[1] = "fail" /\ lastStatus[2] # "no data found"

\* C6: a non-success response whose error is not "no data" makes
\* wait_for_otp_from_pulseem raise in that same iteration: the call is over
\* with RuntimeError, and no query and no poll sleep follows.
C6_GenuineErrorRaisesAtOnce ==
    /\ [](GenuineError => autoError = "RuntimeError" /\ ~InAwait)
    /\ [][GenuineError => queries' = queries /\ sleeps' = sleeps /\ now' >= now]_vars

\* the vendor error came on a later poll, with time left before the deadline
C6_Witness ==
    /\ GenuineError
    /\ pc = "otp_except"
    /\ queries >= 2
    /\ now < deadline

\* C7: during one call last_seen_dt never decreases; after every cycle it is
\* the maximum of the checkpoint and of the timestamps of all messages polled
\* so far, with or without a code; a message fresh in a cycle is newer than
\* everything seen before that cycle.
C7_LastSeenIsRunningMax ==
    /\ []((InAwait \/ CycleDone) =>
            /\ last_seen_dt.t >= checkpoint_dt.t
            /\ last_seen_dt.t >= seen_max
            /\ last_seen_dt.t \in {checkpoint_dt.t, seen_max}
            /\ prev_seen_dt.t <= last_seen_dt.t
            /\ \A i \in 1..Len(fresh_sorted) :
                  InstantOf(fresh_sorted[i]) > prev_seen_dt.t)
    /\ [][InAwait => last_seen_dt'.t >= last_seen_dt.t]_vars

\* a message without a code that was fresh in an earlier cycle comes again
\* in a later poll and is not fresh any more
C7_Witness ==
    /\ CycleDone
    /\ queries >= 2
    /\ \E m \in Reports :
          /\ ~HasCode(m)
          /\ InstantOf(m) > checkpoint_dt.t
          /\ InstantOf(m) <= prev_seen_dt.t
          /\ \A i \in 1..Len(fresh_sorted) : fresh_sorted[i] # m

\* C8: the manual prompt is reached exactly when the automatic path failed
\* and MANUAL_OTP_FALLBACK is set; with the fallback off, the failure of the
\* automatic path leaves maybe_handle_otp unchanged and the OTP field is
\* neither filled nor submitted.
C8_ManualOnlyAfterFailure ==
    /\ prompted => autoError # "none" /\ MANUAL_OTP_FALLBACK
    /\ (autoError # "none" /\ MANUAL_OTP_FALLBACK
            /\ pc \notin {"otp_except", "manual_check"}) => prompted
    /\ (autoError # "none" /\ ~MANUAL_OTP_FALLBACK /\ pc # "otp_except") =>
          /\ pc = "site_failed"
          /\ failure = autoError
          /\ ~filled
          /\ ~submitted
          /\ ~prompted

\* the fallback is off and the timeout of the automatic path is what leaves
\* maybe_handle_otp
C8_Witness ==
    /\ ~MANUAL_OTP_FALLBACK
    /\ pc = "site_failed"
    /\ failure = "TimeoutError"
    /\ queries >= 1

\* C9: the manual fallback never waits for input past its window.
C9_ManualWaitBounded ==
    pc = "manual_input" => now - manual_start <= MANUAL_OTP_MAX_WAIT_SECONDS

\* the checkpoint query has just been answered
CheckpointAnswered ==
    /\ resp # NoResp
    /\ queries = 0
    /\ pc \in {"wait_begin", "otp_except"}

\* C10: get_last_sms_datetime never raises; it returns the maximum parsed
\* timestamp of the messages, and datetime.min when the query throws, the
\* status is not success or the list is empty.
C10_CheckpointNeverRaises ==
    CheckpointAnswered =>
        /\ pc = "wait_begin"
        /\ checkpoint_dt.t =
              IF resp.status = "success" THEN MaxInstant(resp.reports) ELSE 0

\* ------------------------- get_last_sms_datetime called twice in succession
\* the clock value up to which the scenario is followed
MaxClock == MaxT + CheckpointLookback + 2

\* format_time: the query carries a time to the second, the unit of the clock
format_time(dt_obj) == dt_obj

\* variant of WindowStart: the window starts at the time of the call
WindowStartAtNow(clock, lookback_seconds) == clock

\* start = datetime.now() - timedelta(seconds=lookback_seconds)
WindowStart(clock, lookback_seconds) == clock - lookback_seconds

RECURSIVE InWindow(_, _, _)
\* the MessageSource's answer to a query: its messages stamped within
\* [start, end], in order of arrival
InWindow(msgs, start, end) ==
    IF msgs = <<>> THEN <<>>
    ELSE LET m == Head(msgs)
             rest == InWindow(Tail(msgs), start, end)
         IN  IF start <= m.ReplyDate.t /\ m.ReplyDate.t <= end
             THEN <<m>> \o rest ELSE rest

CkInit ==
    /\ OtpIdle
    /\ RestIdle
    /\ SelIdle
    /\ FlIdle
    /\ FrIdle
    /\ ClIdle
    /\ ck_now = 0
    /\ inbox = <<>>
    /\ ck_calls = <<>>
    /\ ck_arrived = FALSE

\* time passes
CkTick ==
    /\ ck_now < MaxClock
    /\ ck_now' = ck_now + 1
    /\ UNCHANGED <<ckOthers, inbox, ck_calls, ck_arrived>>

\* an SMS reaches the virtual number; the MessageSource stamps it with the
\* time of arrival
SmsArrives ==
    /\ ck_now \in 1..MaxT
    /\ Len(inbox) < MaxReports
    /\ Len(ck_calls) < 2
    /\ \E fmt \in {"iso", "isoZ"} :
          inbox' = Append(inbox, [ReplyDate |-> [fmt |-> fmt, t |-> ck_now],
                                  ReplyText |-> TextCode1])
    /\ ck_arrived' = TRUE
    /\ UNCHANGED <<ckOthers, ck_now, ck_calls>>

\* get_last_sms_datetime(virtual_number, auth, lookback_seconds): the query
\* over [now - lookback, now] and the value returned (NoDt: it raised)
CheckpointCall ==
    /\ Len(ck_calls) < 2
    /\ \E status \in {"success", "fail", "exception"} :
          LET start == format_time(WindowStart(ck_now, CheckpointLookback))
              end == format_time(ck_now)
              r == [status |-> status,
                    error |-> IF status = "fail" THEN "no data found" ELSE "",
                    reports |-> IF status = "success"
                                THEN InWindow(inbox, start, end) ELSE <<>>]
          IN  ck_calls' = Append(ck_calls,
                                 [status |-> status, at |-> ck_now,
                                  fresh |-> ck_arrived,
                                  value |-> get_last_sms_datetime(r)])
    /\ ck_arrived' = FALSE
    /\ UNCHANGED <<ckOthers, ck_now, inbox>>

CkNext ==
    \/ CkTick
    \/ SmsArrives
    \/ CheckpointCall

SpecCheckpoint == CkInit /\ [][CkNext]_vars

\* two calls have returned and no message arrived between them
TwoCallsNoArrival ==
    /\ Len(ck_calls) = 2
    /\ ~ck_calls[2].fresh
    /\ ck_calls[1].value # NoDt

Cell_01_02_2024 == <<"0", "1", "/", "0", "2", "/", "2", "0", "2", "4">>
Cell_15_01_2024 == <<"1", "5", "/", "0", "1", "/", "2", "0", "2", "4">>
Cell_32_13_2024 == <<"3", "2", "/", "1", "3", "/", "2", "0", "2", "4">>
Cell_30_02_2024 == <<"3", "0", "/", "0", "2", "/", "2", "0", "2", "4">>
Cell_01_01_0001 == <<"0", "1", "/", "0", "1", "/", "0", "0", "0", "1">>
Cell_Padded == <<" ", "1", "5", "/", "0", "1", "/", "2", "0", "2", "4", " ", "a">>
Cell_Total == <<"a", "_", " ", "2", "0", "2", "4">>
CellTexts == {Cell_01_02_2024, Cell_15_01_2024, Cell_32_13_2024, Cell_30_02_2024,
              Cell_01_01_0001, Cell_Padded, Cell_Total}

\* a date cell: its inner text, or a cell whose inner_text() raises
DateCells == [readable : {TRUE}, text : CellTexts]
                 \cup {[readable |-> FALSE, text |-> <<>>]}

\* (\d{2}/\d{2}/\d{4}) matches at position i
MatchDateAt(s, i) ==
    /\ i + 9 <= Len(s)
    /\ \A k \in {0, 1, 3, 4, 6, 7, 8, 9} : IsDigit(s[i + k])
    /\ s[i + 2] = "/"
    /\ s[i + 5] = "/"

\* re.search(r"(\d{2}/\d{2}/\d{4})", txt).group(1), <<>> when there is no match
DateSearch(s) ==
    LET hits == {i \in 1..Len(s) : MatchDateAt(s, i)}
    IN  IF hits = {} THEN <<>>
        ELSE LET i == CHOOSE j \in hits : \A k \in hits : j <= k
             IN  SubSeq(s, i, i + 9)

DigitValue(c) ==
    CASE c = "0" -> 0 [] c = "1" -> 1 [] c = "2" -> 2 [] c = "3" -> 3
      [] c = "4" -> 4 [] c = "5" -> 5 [] c = "6" -> 6 [] c = "7" -> 7
      [] c = "8" -> 8 [] c = "9" -> 9

RECURSIVE Number(_)
\* int() of a run of digits
Number(ds) ==
    IF ds = <<>> THEN 0
    ELSE 10 * Number(SubSeq(ds, 1, Len(ds) - 1)) + DigitValue(ds[Len(ds)])

IsLeap(y) == y % 4 = 0 /\ (y % 100 # 0 \/ y % 400 = 0)
DaysInMonth(y, m) ==
    IF m = 2 THEN (IF IsLeap(y) THEN 29 ELSE 28)
    ELSE IF m \in {4, 6, 9, 11} THEN 30 ELSE 31

NoDate == [y |-> 0, m |-> 0, d |-> 0]

\* _parse_il_date_ddmmyyyy of a dd/mm/yyyy group: datetime.strptime(s,
\* "%d/%m/%Y"), NoDate (None) when it raises
parse_il_date_ddmmyyyy(g) ==
    LET d == Number(SubSeq(g, 1, 2))
        m == Number(SubSeq(g, 4, 5))
        y == Number(SubSeq(g, 7, 10))
    IN  IF /\ y >= 1
           /\ m >= 1
           /\ m <= 12
           /\ d >= 1
           /\ d <= DaysInMonth(y, m)
        THEN [y |-> y, m |-> m, d |-> d]
        ELSE NoDate

\* variant of DateAfter: the first field of the text taken for the month
DateAfterMonthFirst(a, b) ==
    \/ a.y > b.y
    \/ a.y = b.y /\ a.d > b.d
    \/ a.y = b.y /\ a.d = b.d /\ a.m > b.m

\* dt > best_dt
DateAfter(a, b) ==
    \/ a.y > b.y
    \/ a.y = b.y /\ a.m > b.m
    \/ a.y = b.y /\ a.m = b.m /\ a.d > b.d

\* the date one iteration of the loop gets from a cell, NoDate when the
\* iteration ends in continue or dt is None
CellDate(cell) ==
    IF ~cell.readable THEN NoDate
    ELSE LET g == DateSearch(Strip(cell.text))
         IN  IF g = <<>> THEN NoDate ELSE parse_il_date_ddmmyyyy(g)

\* one iteration of the loop: best_dt and best_cell after cell i
ScanCell(cells, i, best) ==
    LET dt == CellDate(cells[i])
    IN  IF dt # NoDate /\ DateAfter(dt, best.dt)
        THEN [dt |-> dt, cell |-> i]
        ELSE best

SelInit ==
    /\ OtpIdle
    /\ RestIdle
    /\ CkIdle
    /\ FlIdle
    /\ FrIdle
    /\ ClIdle
    /\ sel_pc = "scan"
    /\ sel_cells \in SeqsUpTo(DateCells, MaxCells) \ {<<>>}
    /\ sel_i = 1
    /\ best_cell = 0
    /\ best_dt = date_min

\* for i in range(date_cells.count()): one iteration
SelStep ==
    /\ sel_pc = "scan"
    /\ sel_i <= Len(sel_cells)
    /\ LET best == ScanCell(sel_cells, sel_i, [dt |-> best_dt, cell |-> best_cell])
       IN  best_dt' = best.dt /\ best_cell' = best.cell
    /\ sel_i' = sel_i + 1
    /\ UNCHANGED <<selOthers, sel_pc, sel_cells>>

\* if best_cell is None: raise RuntimeError; else the row is used
SelFinish ==
    /\ sel_pc = "scan"
    /\ sel_i > Len(sel_cells)
    /\ sel_pc' = IF best_cell = 0 THEN "not_found" ELSE "selected"
    /\ UNCHANGED <<selOthers, sel_cells, sel_i, best_cell, best_dt>>

SelNext ==
    \/ SelStep
    \/ SelFinish

SpecSelect == SelInit /\ [][SelNext]_vars

\* ------------------------------ properties of the latest-row scan
SelOver == sel_pc \in {"selected", "not_found"}
Cell(text) == [readable |-> TRUE, text |-> text]
SpecExampleCells == <<Cell(Cell_01_02_2024), Cell(Cell_15_01_2024), Cell(Cell_32_13_2024)>>
ParseableAt(cells) == {i \in 1..Len(cells) : CellDate(cells[i]) # NoDate}

\* C13 as stated: over the cells 01/02/2024, 15/01/2024, 32/13/2024 the scan
\* selects the cell of 15/01/2024.
C13_ExampleSelectsJanuary ==
    (SelOver /\ sel_cells = SpecExampleCells)
        => (sel_pc = "selected" /\ sel_cells[best_cell].text = Cell_15_01_2024)

\* C13 amended: over the cells 01/02/2024, 15/01/2024, 32/13/2024 the scan
\* selects the cell of 01/02/2024 (1 February 2024, the greatest valid date
\* read as day/month/year); the malformed cell 32/13/2024 is ignored.
C13_ExampleSelectsFebruary ==
    (SelOver /\ sel_cells = SpecExampleCells)
        => /\ sel_pc = "selected"
           /\ best_cell = 1
           /\ best_dt = [y |-> 2024, m |-> 2, d |-> 1]
           /\ CellDate(sel_cells[3]) = NoDate

C13_Witness == sel_pc = "selected" /\ sel_cells = SpecExampleCells

\* C14: whenever at least one cell holds a parseable dd/mm/yyyy date, the
\* scan ends with a cell selected whose date is the greatest of the parseable
\* cells and which is the first cell in DOM order with that date; unparseable
\* and unreadable cells never abort the scan.
C14_SelectsFirstMaximum ==
    (SelOver /\ ParseableAt(sel_cells) # {})
        => /\ sel_pc = "selected"
           /\ best_cell \in ParseableAt(sel_cells)
           /\ \A j \in ParseableAt(sel_cells) :
                  /\ ~DateAfter(CellDate(sel_cells[j]), CellDate(sel_cells[best_cell]))
                  /\ CellDate(sel_cells[j]) = CellDate(sel_cells[best_cell]) => best_cell <= j

\* ------------------------------ run_payments_assembly_flow: the row's fields
Agent165 == <<"1", "6", "5">>
AgentEmbedded == <<"a", "1", "6", "5", "b">>
AgentSecondRun == <<"1", "2", " ", "1", "6", "5">>
AgentEmpty == <<>>
AgentTexts == {Agent165, AgentEmbedded, AgentSecondRun, AgentEmpty}

\* re.search(r"\d+", agent_text).group(0), "" when there is no digit
agent_num(agent_text) ==
    LET hits == {i \in 1..Len(agent_text) : IsDigit(agent_text[i])}
    IN  IF hits = {} THEN <<>>
        ELSE LET i == CHOOSE j \in hits : \A k \in hits : j <= k
             IN  SubSeq(agent_text, i, i + DigitRunLen(agent_text, i) - 1)

\* variant of AgentOk: 165 accepted anywhere in the text
AgentOkAnywhere(agent_text) ==
    \E i \in 1..Len(agent_text) : SubSeq(agent_text, i, i + 2) = Agent165

\* not (agent_num != "165")
AgentOk(agent_text) == agent_num(Strip(agent_text)) = Agent165

\* the rows a table is made of: the date cell and the text of the agent cell
RowDates == {Cell(Cell_01_02_2024), Cell(Cell_15_01_2024), Cell(Cell_Total)}
RowContents == [date : RowDates, agent : AgentTexts]
Tables ==
    {[i \in 1..Len(q) |-> [id |-> i, date |-> q[i].date, agent |-> q[i].agent]] :
        q \in SeqsUpTo(RowContents, MaxRows)}

\* page.locator('td[data_colid="Date_Hatama_Desc"]'): the date cells of the
\* table in DOM order
DateColumn(table) == [i \in 1..Len(table) |-> table[i].date]

NoRow == [id |-> 0, date |-> [readable |-> FALSE, text |-> <<>>], agent |-> <<>>]

\* date_cells.nth(i).locator("xpath=ancestor::tr[1]"), resolved anew each time
\* it is used: the row of the i-th date cell of the table as it is now
RowAt(table, i) == IF i \in 1..Len(table) THEN table[i] ELSE NoRow

\* a row that a render adds to the table
InsertedRow == [id |-> MaxRows + 1, date |-> Cell(Cell_15_01_2024), agent |-> Agent165]

\* the tables a render can leave, the row of the winning date cell still
\* there: the rows in another order, one other row removed, a row inserted
\* at the top
Rerendered(table, winner) ==
    LET n == Len(table)
        reordered == {q \in [1..n -> {table[i] : i \in 1..n}] :
                         /\ q # table
                         /\ \A i, j \in 1..n : q[i] = q[j] => i = j}
        removed == {[i \in 1..(n - 1) |-> IF i < k THEN table[i] ELSE table[i + 1]] :
                       k \in {i \in 1..n : table[i].id # winner}}
        inserted == IF \E i \in 1..n : table[i].id = InsertedRow.id
                    THEN {}
                    ELSE {<<InsertedRow>> \o table}
    IN  reordered \cup removed \cup inserted

\* how a robust_click ends: the click landed and the call returned, the call
\* raised without a click, the click landed and the call raised
ClickOutcomes == {"ok", "raise", "click_raise"}

FlowInit ==
    /\ OtpIdle
    /\ RestIdle
    /\ CkIdle
    /\ SelIdle
    /\ FrIdle
    /\ ClIdle
    /\ fl_pc = "wait_cells"
    /\ fl_error = ""
    /\ fl_table \in Tables
    /\ fl_winner = 0
    /\ fl_rerenders = 0
    /\ fl_clicks = <<>>
    /\ fl_agent = NoRead
    /\ fl_popup = FALSE
    /\ fl_download = FALSE

\* the flow raises
Raise(error) ==
    /\ fl_pc' = "raised"
    /\ fl_error' = error

\* date_cells.first.wait_for(state="attached"), best_cell = None,
\* best_dt = datetime.min
FlowWaitCells ==
    /\ fl_pc = "wait_cells"
    /\ IF fl_table = <<>>
       THEN /\ Raise("timeout")
            /\ UNCHANGED selVars
       ELSE /\ fl_pc' = "scan"
            /\ sel_pc' = "scan"
            /\ sel_cells' = DateColumn(fl_table)
            /\ sel_i' = 1
            /\ best_cell' = 0
            /\ best_dt' = date_min
            /\ UNCHANGED fl_error
    /\ UNCHANGED <<flOthers, fl_table, fl_winner, fl_rerenders, fl_clicks, fl_agent,
                   fl_popup, fl_download>>

\* variant of FlowNotFound: the flow goes on with the first row
FlowNotFoundProceeds ==
    /\ fl_pc = "scan"
    /\ sel_pc = "not_found"
    /\ fl_pc' = "nifraim"
    /\ best_cell' = 1
    /\ fl_winner' = fl_table[1].id
    /\ UNCHANGED <<flOthers, sel_pc, sel_cells, sel_i, best_dt, fl_error, fl_table,
                   fl_rerenders, fl_clicks, fl_agent, fl_popup, fl_download>>

\* if best_cell is None: raise RuntimeError
FlowNotFound ==
    /\ fl_pc = "scan"
    /\ sel_pc = "not_found"
    /\ Raise("not_found")
    /\ UNCHANGED <<flOthers, selVars, fl_table, fl_winner, fl_rerenders, fl_clicks,
                   fl_agent, fl_popup, fl_download>>

\* row = best_cell.locator("xpath=ancestor::tr[1]")
FlowRow ==
    /\ fl_pc = "scan"
    /\ sel_pc = "selected"
    /\ fl_pc' = "nifraim"
    /\ fl_winner' = fl_table[best_cell].id
    /\ UNCHANGED <<flOthers, selVars, fl_error, fl_table, fl_rerenders, fl_clicks,
                   fl_agent, fl_popup, fl_download>>

\* the table is rendered anew between the scan and the use of the row
ReRender ==
    /\ fl_pc \in {"nifraim", "validate", "month"}
    /\ fl_rerenders < MaxRerenders
    /\ fl_table' \in Rerendered(fl_table, fl_winner)
    /\ fl_rerenders' = fl_rerenders + 1
    /\ UNCHANGED <<flOthers, selVars, fl_pc, fl_error, fl_winner, fl_clicks, fl_agent,
                   fl_popup, fl_download>>

\* robust_click(page, locator=nifraim, ...)
FlowClickNifraim ==
    /\ fl_pc = "nifraim"
    /\ LET row == RowAt(fl_table, best_cell)
       IN  \E outcome \in ClickOutcomes :
               /\ row = NoRow => outcome = "raise"
               /\ fl_clicks' = IF outcome = "raise" THEN fl_clicks
                               ELSE Append(fl_clicks, [cell |-> "Schum_Nifraim", row |-> row.id])
               /\ IF outcome = "ok"
                  THEN fl_pc' = "validate" /\ UNCHANGED fl_error
                  ELSE Raise("click")
    /\ UNCHANGED <<flOthers, selVars, fl_table, fl_winner, fl_rerenders, fl_agent,
                   fl_popup, fl_download>>

\* agent_text = agent_cell.inner_text(); if agent_num != "165": raise
FlowValidate ==
    /\ fl_pc = "validate"
    /\ LET row == RowAt(fl_table, best_cell)
       IN  IF row = NoRow
           THEN /\ Raise("timeout")
                /\ UNCHANGED fl_agent
           ELSE /\ fl_agent' = [row |-> row.id, text |-> row.agent]
                /\ IF AgentOk(row.agent)
                   THEN fl_pc' = "month" /\ UNCHANGED fl_error
                   ELSE Raise("mismatch")
    /\ UNCHANGED <<flOthers, selVars, fl_table, fl_winner, fl_rerenders, fl_clicks,
                   fl_popup, fl_download>>

\* month_span.wait_for(state="attached"); with ctx.expect_page() as pop:
\* robust_click(page, locator=month_span, ...)
FlowClickMonth ==
    /\ fl_pc = "month"
    /\ LET row == RowAt(fl_table, best_cell)
       IN  IF row = NoRow
           THEN /\ Raise("timeout")
                /\ UNCHANGED <<fl_clicks, fl_popup>>
           ELSE \E outcome \in ClickOutcomes, opened \in BOOLEAN :
                    /\ outcome = "raise" => ~opened
                    /\ fl_clicks' = IF outcome = "raise" THEN fl_clicks
                                    ELSE Append(fl_clicks, [cell |-> "_M2_Schum", row |-> row.id])
                    /\ fl_popup' = opened
                    /\ IF outcome = "ok"
                       THEN IF opened
                            THEN fl_pc' = "paid" /\ UNCHANGED fl_error
                            ELSE Raise("popup")
                       ELSE Raise("click")
    /\ UNCHANGED <<flOthers, selVars, fl_table, fl_winner, fl_rerenders, fl_agent,
                   fl_download>>

\* saved_excel = handle_paid_window_and_download(paid_page, download_dir)
FlowPaid ==
    /\ fl_pc = "paid"
    /\ \E saved \in BOOLEAN :
           /\ fl_download' = saved
           /\ IF saved
              THEN fl_pc' = "done" /\ UNCHANGED fl_error
              ELSE Raise("paid")
    /\ UNCHANGED <<flOthers, selVars, fl_table, fl_winner, fl_rerenders, fl_clicks,
                   fl_agent, fl_popup>>

FlowNext ==
    \/ FlowWaitCells
    \/ SelStep
    \/ SelFinish
    \/ FlowNotFound
    \/ FlowRow
    \/ ReRender
    \/ FlowClickNifraim
    \/ FlowValidate
    \/ FlowClickMonth
    \/ FlowPaid

SpecFlow == FlowInit /\ [][FlowNext]_vars

\* ------------------------------ properties of the flow
MonthClicked == \E k \in 1..Len(fl_clicks) : fl_clicks[k].cell = "_M2_Schum"

\* C12: the month cell is clicked, the popup opens and the file is saved only
\* after the agent cell has been read through the row locator and its first
\* run of digits is 165; when the agent number differs the flow raises and
\* the month cell is never clicked, no popup opens and nothing is saved.
C12_PopupOnlyAfterAgentCheck ==
    /\ (MonthClicked \/ fl_popup \/ fl_download \/ fl_pc \in {"month", "paid", "done"})
           => (fl_agent # NoRead /\ agent_num(fl_agent.text) = Agent165)
    /\ (fl_agent # NoRead /\ agent_num(fl_agent.text) # Agent165)
           => /\ fl_pc = "raised"
              /\ fl_error = "mismatch"
              /\ ~MonthClicked
              /\ ~fl_popup
              /\ ~fl_download

C12_Witness ==
    /\ fl_pc = "done"
    /\ fl_download
    /\ MonthClicked
    /\ fl_agent.text = AgentEmbedded

\* C15: when no date cell holds a parseable date the flow raises the
\* not-found error (a timeout when there is no date cell at all) and stops:
\* no cell is clicked, no popup opens, nothing is saved.
C15_NoDateStopsTheFlow ==
    ParseableAt(DateColumn(fl_table)) = {}
        => /\ fl_clicks = <<>>
           /\ ~fl_popup
           /\ ~fl_download
           /\ fl_agent = NoRead
           /\ fl_pc \in {"wait_cells", "scan", "raised"}
           /\ fl_pc = "raised" =>
                  fl_error = IF fl_table = <<>> THEN "timeout" ELSE "not_found"
           /\ sel_pc # "selected"

C15_Witness ==
    /\ fl_pc = "raised"
    /\ fl_error = "not_found"
    /\ Len(fl_table) = MaxRows
    /\ ParseableAt(DateColumn(fl_table)) = {}

\* C16: the agent cell that is read and the month cell that is clicked belong
\* to the row whose date cell won the scan, also when the table is rendered
\* anew in between.
C16_NoCrossRowContamination ==
    /\ fl_agent # NoRead => fl_agent.row = fl_winner
    /\ \A k \in 1..Len(fl_clicks) :
           fl_clicks[k].cell = "_M2_Schum" => fl_clicks[k].row = fl_winner

\* ------------------------------ click_favorite_report_link
\* an <a> element of a frame: whether its href holds
\* DocIdLookup.aspx?DocId=AGENTS-31-129, which of the two labels its text
\* holds ("long" holds "short" too), whether it is visible
Links == [present : {TRUE}, href : BOOLEAN, text : {"none", "short", "long"},
          visible : BOOLEAN]
NoLink == [present |-> FALSE, href |-> FALSE, text |-> "none", visible |-> FALSE]

\* a frame: looking a selector up in it raises, or it holds at most one link
FrameKinds ==
    {[broken |-> TRUE, link |-> NoLink], [broken |-> FALSE, link |-> NoLink]}
        \cup {[broken |-> FALSE, link |-> l] : l \in Links \ {k \in Links : ~k.href /\ k.text = "none"}}

\* variant of Rules: every :visible selector before every other one
RulesVisibleFirst ==
    << [kind |-> "href", visible |-> TRUE],
       [kind |-> "txt1", visible |-> TRUE],
       [kind |-> "txt2", visible |-> TRUE],
       [kind |-> "href", visible |-> FALSE],
       [kind |-> "txt1", visible |-> FALSE],
       [kind |-> "txt2", visible |-> FALSE] >>

\* href_visible, href_any, txt1_visible, txt2_visible, txt1_any, txt2_any in
\* the order they are tried
Rules ==
    << [kind |-> "href", visible |-> TRUE],
       [kind |-> "href", visible |-> FALSE],
       [kind |-> "txt1", visible |-> TRUE],
       [kind |-> "txt2", visible |-> TRUE],
       [kind |-> "txt1", visible |-> FALSE],
       [kind |-> "txt2", visible |-> FALSE] >>

\* the selector matches the link
Matches(link, selector) ==
    /\ link.present
    /\ CASE selector.kind = "href" -> link.href
         [] selector.kind = "txt1" -> link.text \in {"short", "long"}
         [] selector.kind = "txt2" -> link.text = "long"
    /\ selector.visible => link.visible

RECURSIVE FindFirstFrom(_, _, _)

\* variant of LookupRaised: the search ends without a hit
LookupRaisedAborts(frames, selector, i) == 0

\* except Exception: continue
LookupRaised(frames, selector, i) == FindFirstFrom(frames, selector, i + 1)

\* the loop of find_first_locator_in_any_frame from frame i on: the position
\* of the frame of the hit, 0 for None
FindFirstFrom(frames, selector, i) ==
    IF i > Len(frames) THEN 0
    ELSE IF frames[i].broken THEN LookupRaised(frames, selector, i)
    ELSE IF Matches(frames[i].link, selector) THEN i
    ELSE FindFirstFrom(frames, selector, i + 1)

find_first_locator_in_any_frame(frames, selector) == FindFirstFrom(frames, selector, 1)

FrInit ==
    /\ OtpIdle
    /\ RestIdle
    /\ CkIdle
    /\ SelIdle
    /\ FlIdle
    /\ ClIdle
    /\ fr_pc = "open_favorites"
    /\ fr_error = ""
    /\ fr_frames \in SeqsUpTo(FrameKinds, MaxFrames) \ {<<>>}
    /\ fr_rule = 0
    /\ fr_calls = <<>>
    /\ fr_hit = NoHit
    /\ fr_clicks = <<>>

FrRaise(error) ==
    /\ fr_pc' = "raised"
    /\ fr_error' = error

\* open_favorites(page)
FavOpen ==
    /\ fr_pc = "open_favorites"
    /\ \E opened \in BOOLEAN :
           IF opened
           THEN /\ fr_pc' = "resolve"
                /\ fr_rule' = 1
                /\ UNCHANGED fr_error
           ELSE /\ FrRaise("open_favorites")
                /\ UNCHANGED fr_rule
    /\ UNCHANGED <<frOthers, fr_frames, fr_calls, fr_hit, fr_clicks>>

\* variant of FavLookup: the frames in order, in each frame every selector
FavLookupFrameMajor ==
    /\ fr_pc = "resolve"
    /\ LET hits == {h \in [frame : 1..Len(fr_frames), rule : 1..Len(Rules)] :
                       /\ ~fr_frames[h.frame].broken
                       /\ Matches(fr_frames[h.frame].link, Rules[h.rule])}
       IN  IF hits = {}
           THEN /\ FrRaise("not_found")
                /\ UNCHANGED fr_hit
           ELSE /\ fr_hit' = CHOOSE h \in hits : \A g \in hits :
                                 \/ h.frame < g.frame
                                 \/ h.frame = g.frame /\ h.rule <= g.rule
                /\ fr_pc' = "click"
                /\ UNCHANGED fr_error
    /\ fr_calls' = Append(fr_calls, 0)
    /\ UNCHANGED <<frOthers, fr_frames, fr_rule, fr_clicks>>

\* fr, loc = find_first_locator_in_any_frame(page, <selector>); if loc: ...
\* else: the next selector, or raise RuntimeError after the last one
FavLookup ==
    /\ fr_pc = "resolve"
    /\ LET found == find_first_locator_in_any_frame(fr_frames, Rules[fr_rule])
       IN  /\ fr_calls' = Append(fr_calls, found)
           /\ IF found # 0
              THEN /\ fr_hit' = [frame |-> found, rule |-> fr_rule]
                   /\ fr_pc' = "click"
                   /\ UNCHANGED <<fr_rule, fr_error>>
              ELSE IF fr_rule < Len(Rules)
              THEN /\ fr_rule' = fr_rule + 1
                   /\ UNCHANGED <<fr_pc, fr_hit, fr_error>>
              ELSE /\ FrRaise("not_found")
                   /\ UNCHANGED <<fr_rule, fr_hit>>
    /\ UNCHANGED <<frOthers, fr_frames, fr_clicks>>

\* robust_click_in_frame(page, fr, loc, ...)
FavClick ==
    /\ fr_pc = "click"
    /\ \E outcome \in ClickOutcomes :
           /\ fr_clicks' = IF outcome = "raise" THEN fr_clicks
                           ELSE Append(fr_clicks, fr_hit)
           /\ IF outcome = "ok"
              THEN fr_pc' = "confirm" /\ UNCHANGED fr_error
              ELSE FrRaise("click")
    /\ UNCHANGED <<frOthers, fr_frames, fr_rule, fr_calls, fr_hit>>

\* page.wait_for_url(...), or the wait for div.ctrlbutton.cbo
FavConfirm ==
    /\ fr_pc = "confirm"
    /\ \E loaded \in BOOLEAN :
           IF loaded
           THEN fr_pc' = "opened" /\ UNCHANGED fr_error
           ELSE FrRaise("timeout")
    /\ UNCHANGED <<frOthers, fr_frames, fr_rule, fr_calls, fr_hit, fr_clicks>>

FrNext ==
    \/ FavOpen
    \/ FavLookup
    \/ FavClick
    \/ FavConfirm

SpecFrames == FrInit /\ [][FrNext]_vars

\* ------------------------------ properties of the frame search
FrameHolds(i, r) == ~fr_frames[i].broken /\ Matches(fr_frames[i].link, Rules[r])
FrameIds == 1..Len(fr_frames)
RuleIds == 1..Len(Rules)
Resolved == fr_hit # NoHit
ResolutionOver == Resolved \/ (fr_pc = "raised" /\ fr_error = "not_found")

\* C17: a search for a selector whose target is attached in exactly one
\* frame, a nested one, returns that frame, wherever the frame is among the
\* frames and also when the lookup raises in frames before it.
C17_FindsTargetInNestedFrame ==
    \A k \in 1..Len(fr_calls) : \A j \in FrameIds :
        (/\ j > 1
         /\ FrameHolds(j, k)
         /\ \A i \in FrameIds \ {j} : ~Matches(fr_frames[i].link, Rules[k]))
            => fr_calls[k] = j

C17_Witness ==
    /\ Len(fr_frames) = MaxFrames
    /\ \A i \in 1..(MaxFrames - 1) : fr_frames[i].broken
    /\ Len(fr_calls) = 1
    /\ fr_calls[1] = MaxFrames

\* the priority of a selector: 1 href visible, 2 href attached, 3 and 4 the
\* two labels visible, 5 and 6 the two labels attached
RulePriority(selector) ==
    CASE selector.kind = "href" -> IF selector.visible THEN 1 ELSE 2
      [] selector.kind = "txt1" -> IF selector.visible THEN 3 ELSE 5
      [] selector.kind = "txt2" -> IF selector.visible THEN 4 ELSE 6
Selectors == [kind : {"href", "txt1", "txt2"}, visible : BOOLEAN]
SelectorHolds(i, selector) == ~fr_frames[i].broken /\ Matches(fr_frames[i].link, selector)

\* C18: the hit is the match of the first selector, in the order
\* href-visible, href-attached, text-visible (two labels), text-attached (two
\* labels), that matches in any frame, whichever frame that is; the call
\* raises not-found exactly when no selector matches in any frame, and then
\* the link is not clicked.
C18_RulePriorityAcrossFrames ==
    LET matching == {x \in Selectors : \E i \in FrameIds : SelectorHolds(i, x)}
    IN  /\ (ResolutionOver /\ matching # {})
               => /\ Resolved
                  /\ Rules[fr_hit.rule] \in matching
                  /\ \A x \in matching :
                         RulePriority(Rules[fr_hit.rule]) <= RulePriority(x)
                  /\ SelectorHolds(fr_hit.frame, Rules[fr_hit.rule])
        /\ (ResolutionOver /\ matching = {})
               => /\ fr_pc = "raised"
                  /\ fr_error = "not_found"
                  /\ fr_clicks = <<>>
        /\ \A k \in 1..Len(fr_clicks) : fr_clicks[k] = fr_hit /\ Resolved

C18_Witness ==
    /\ fr_pc = "opened"
    /\ fr_hit.rule = 2
    /\ fr_hit.frame = MaxFrames
    /\ \E i \in FrameIds : FrameHolds(i, 3)

\* C19 as stated: the frames are gone through in order and in each frame
\* every selector is tried, so the hit is in the first frame in which any
\* selector matches, whatever the priority of that selector.
C19_EarlierFrameWins ==
    Resolved => \A i \in FrameIds : \A r \in RuleIds :
                    FrameHolds(i, r) => fr_hit.frame <= i

\* C19 amended: the selectors are gone through in priority order and each
\* one is looked up in the frames in order, so a match of a higher-priority
\* selector in a later frame is returned in preference to a match of a
\* lower-priority selector in an earlier frame, and among the frames that
\* match the same selector the earliest wins; a visible match is preferred to
\* a hidden one of the same kind only (a hidden href match wins over a visible
\* text match).
C19_HigherRuleWinsThenEarlierFrame ==
    Resolved => \A i \in FrameIds : \A r \in RuleIds :
                    FrameHolds(i, r) =>
                        \/ fr_hit.rule < r
                        \/ fr_hit.rule = r /\ fr_hit.frame <= i

C19_Witness ==
    /\ Resolved
    /\ fr_hit.rule = 2
    /\ fr_hit.frame > 1
    /\ FrameHolds(1, 3)

\* ------------------------------ robust_click, robust_click_in_frame
\* the descriptions robust_click is called with
Descriptions == {"company dropdown", "paid Excel download"}

ClInit ==
    /\ OtpIdle
    /\ RestIdle
    /\ CkIdle
    /\ SelIdle
    /\ FlIdle
    /\ FrIdle
    /\ cl_pc = "ready"
    /\ cl_attempt = 1
    /\ cl_attached \in BOOLEAN
    /\ cl_visible \in BOOLEAN
    /\ cl_visible => cl_attached
    /\ cl_changes = 0
    /\ cl_scroll_failed = FALSE
    /\ cl_normal_failed = 0
    /\ cl_landed = <<>>
    /\ cl_cause = ""
    /\ cl_sleeps = <<>>
    /\ cl_description \in Descriptions
    /\ cl_error = NoError

\* the page attaches, detaches, shows or hides the target while the call runs
DomChange ==
    /\ cl_pc \notin {"idle", "returned", "raised"}
    /\ cl_changes < MaxDomChanges
    /\ cl_changes' = cl_changes + 1
    /\ \E a, v \in BOOLEAN :
           /\ v => a
           /\ <<a, v>> # <<cl_attached, cl_visible>>
           /\ cl_attached' = a
           /\ cl_visible' = v
    /\ UNCHANGED <<clOthers, cl_description, cl_error, cl_pc, cl_attempt, cl_scroll_failed, cl_normal_failed,
                   cl_landed, cl_cause, cl_sleeps>>

\* except Exception as e: the attempt is over
Caught(cause) ==
    /\ cl_pc' = "backoff"
    /\ cl_cause' = cause

\* wait_page_ready(page); dismiss_overlays(page)
ClickReady ==
    /\ cl_pc = "ready"
    /\ \E ready \in BOOLEAN :
           IF ready
           THEN cl_pc' = "attach" /\ UNCHANGED cl_cause
           ELSE Caught("not_ready")
    /\ cl_scroll_failed' = FALSE
    /\ UNCHANGED <<clOthers, cl_description, cl_error, cl_attempt, cl_attached, cl_visible, cl_changes,
                   cl_normal_failed, cl_landed, cl_sleeps>>

\* loc.wait_for(state="attached")
ClickWaitAttached ==
    /\ cl_pc = "attach"
    /\ IF cl_attached
       THEN cl_pc' = "scroll" /\ UNCHANGED cl_cause
       ELSE Caught("not_attached")
    /\ UNCHANGED <<clOthers, cl_description, cl_error, cl_attempt, cl_attached, cl_visible, cl_changes,
                   cl_scroll_failed, cl_normal_failed, cl_landed, cl_sleeps>>

\* try: loc.scroll_into_view_if_needed() except Exception: pass
ClickScroll ==
    /\ cl_pc = "scroll"
    /\ \E scrolled \in BOOLEAN :
           /\ ~cl_attached => ~scrolled
           /\ cl_scroll_failed' = ~scrolled
    /\ cl_pc' = "click"
    /\ UNCHANGED <<clOthers, cl_description, cl_error, cl_attempt, cl_attached, cl_visible, cl_changes,
                   cl_normal_failed, cl_landed, cl_cause, cl_sleeps>>

\* try: loc.click() except Exception: the forced click is next
ClickNormal ==
    /\ cl_pc = "click"
    /\ \E clicked \in BOOLEAN :
           /\ ~cl_visible => ~clicked
           /\ IF clicked
              THEN /\ cl_landed' = Append(cl_landed, [attempt |-> cl_attempt, forced |-> FALSE])
                   /\ cl_pc' = "post"
                   /\ UNCHANGED cl_normal_failed
              ELSE /\ cl_normal_failed' = cl_attempt
                   /\ cl_pc' = "force"
                   /\ UNCHANGED cl_landed
    /\ UNCHANGED <<clOthers, cl_description, cl_error, cl_attempt, cl_attached, cl_visible, cl_changes,
                   cl_scroll_failed, cl_cause, cl_sleeps>>

\* loc.click(force=True)
ClickForce ==
    /\ cl_pc = "force"
    /\ \E clicked \in BOOLEAN :
           /\ ~cl_attached => ~clicked
           /\ IF clicked
              THEN /\ cl_landed' = Append(cl_landed, [attempt |-> cl_attempt, forced |-> TRUE])
                   /\ cl_pc' = "post"
                   /\ UNCHANGED cl_cause
              ELSE /\ Caught("click_failed")
                   /\ UNCHANGED cl_landed
    /\ UNCHANGED <<clOthers, cl_description, cl_error, cl_attempt, cl_attached, cl_visible, cl_changes,
                   cl_scroll_failed, cl_normal_failed, cl_sleeps>>

\* wait_page_ready(page); time.sleep(POST_CLICK_SLEEP); return
ClickPost ==
    /\ cl_pc = "post"
    /\ \E ready \in BOOLEAN :
           IF ready
           THEN cl_pc' = "returned" /\ UNCHANGED cl_cause
           ELSE Caught("post_wait")
    /\ UNCHANGED <<clOthers, cl_description, cl_error, cl_attempt, cl_attached, cl_visible, cl_changes,
                   cl_scroll_failed, cl_normal_failed, cl_landed, cl_sleeps>>

\* variant of BackoffSleep: the same sleep after every attempt
BackoffSleepConstant(attempt) == 1

\* CLICK_RETRY_BASE_SLEEP * attempt, in units of CLICK_RETRY_BASE_SLEEP
BackoffSleep(attempt) == attempt

\* time.sleep(CLICK_RETRY_BASE_SLEEP * attempt), then the next attempt or,
\* after the last one, raise RuntimeError
ClickBackoff ==
    /\ cl_pc = "backoff"
    /\ cl_sleeps' = Append(cl_sleeps, BackoffSleep(cl_attempt))
    /\ IF cl_attempt < CLICK_RETRIES
       THEN /\ cl_attempt' = cl_attempt + 1
            /\ cl_pc' = "ready"
            /\ UNCHANGED cl_error
       ELSE /\ cl_pc' = "raised"
            /\ cl_error' = [text |-> "Failed to click", description |-> cl_description,
                            attempts |-> CLICK_RETRIES]
            /\ UNCHANGED cl_attempt
    /\ UNCHANGED <<clOthers, cl_description, cl_attached, cl_visible, cl_changes,
                   cl_scroll_failed, cl_normal_failed, cl_landed, cl_cause>>

ClNext ==
    \/ DomChange
    \/ ClickReady
    \/ ClickWaitAttached
    \/ ClickScroll
    \/ ClickNormal
    \/ ClickForce
    \/ ClickPost
    \/ ClickBackoff

SpecClick == ClInit /\ [][ClNext]_vars

\* the steps of the call itself: each one ends, by its timeout at the latest
ClCallStep ==
    \/ ClickReady
    \/ ClickWaitAttached
    \/ ClickScroll
    \/ ClickNormal
    \/ ClickForce
    \/ ClickPost
    \/ ClickBackoff

SpecClickFair == SpecClick /\ WF_vars(ClCallStep)

\* ------------------------------ properties of robust_click
\* C20: within one attempt the forced click follows a failed normal click, a
\* failed scroll does not end the attempt, and once the forced click has
\* landed the call returns in that attempt without another attempt.
C20_ForcedClickCompletesCall ==
    /\ cl_pc = "force" => cl_normal_failed = cl_attempt
    /\ (cl_scroll_failed /\ cl_pc = "backoff") => cl_cause \in {"click_failed", "post_wait"}
    /\ \A k \in 1..Len(cl_landed) :
           cl_landed[k].forced =>
               /\ cl_attempt = cl_landed[k].attempt
               /\ cl_pc \in {"post", "returned"}

ClickOver == cl_pc \in {"returned", "raised"}

\* C21: the call makes at most CLICK_RETRIES attempts; each attempt that
\* raises is followed by a backoff of attempt times the base sleep and then
\* by the next attempt; the call returns in the first attempt that completes,
\* or raises after exactly CLICK_RETRIES failed attempts a RuntimeError that
\* names the description; and the call always ends.
C21_BoundedRetriesAndTermination ==
    /\ [](/\ cl_attempt \in 1..CLICK_RETRIES
          /\ \A k \in 1..Len(cl_sleeps) : cl_sleeps[k] = k
          /\ cl_pc \in {"ready", "attach", "scroll", "click", "force", "post", "returned"}
                 => Len(cl_sleeps) = cl_attempt - 1
          /\ cl_pc = "backoff" => (Len(cl_sleeps) = cl_attempt - 1 /\ cl_cause # "")
          /\ cl_pc = "raised"
                 => /\ Len(cl_sleeps) = CLICK_RETRIES
                    /\ cl_attempt = CLICK_RETRIES
                    /\ cl_error.text = "Failed to click"
                    /\ cl_error.description = cl_description
                    /\ cl_error.attempts = CLICK_RETRIES
          /\ cl_pc # "raised" => cl_error = NoError)
    /\ <>ClickOver

C21_Witness ==
    /\ cl_pc = "raised"
    /\ Len(cl_sleeps) = CLICK_RETRIES
    /\ cl_error.description = "paid Excel download"

\* C25: one call lands at most one click on its target: after a normal or a
\* forced click has landed in some attempt, no later attempt of the call
\* clicks the target again, also when the page-ready wait after the click
\* raises.
C25_AtMostOneClickLands == Len(cl_landed) <= 1

\* ------------------------------ main: one site after the other
\* the steps of one site's workflow in the order main runs them: page.goto and
\* wait_page_ready, fill_login_credentials, click_submit_button,
\* maybe_handle_otp, and inside run_payments_assembly_flow the navigation to
\* the report, the selection of the row, the agent check and the download
Steps == <<"goto", "login", "submit", "otp", "navigation", "row_selection",
           "validation", "download">>

\* a site that has not been processed yet
SiteNew == [outcome |-> "pending", failed_at |-> 0, ran |-> <<>>,
            screenshot |-> "none", closed |-> "none"]

MnInit ==
    /\ OtpIdle
    /\ CkIdle
    /\ SelIdle
    /\ FlIdle
    /\ FrIdle
    /\ ClIdle
    /\ PlIdle
    /\ mn_pc = "new_page"
    /\ mn_n \in 1..MaxSites
    /\ mn_site = 1
    /\ mn_step = 0
    /\ mn_sites = [s \in 1..mn_n |-> SiteNew]
    /\ mn_context_closed = FALSE
    /\ mn_browser_closed = FALSE

\* page = context.new_page()
MainNewPage ==
    /\ mn_pc = "new_page"
    /\ mn_pc' = "try"
    /\ mn_step' = 1
    /\ UNCHANGED <<mnOthers, mn_n, mn_site, mn_sites, mn_context_closed, mn_browser_closed>>

\* one step of the try block: it returns or raises
MainStep ==
    /\ mn_pc = "try"
    /\ \E raised \in BOOLEAN :
           LET site == mn_sites[mn_site]
               ran == Append(site.ran, Steps[mn_step])
           IN  IF raised
               THEN /\ mn_sites' = [mn_sites EXCEPT ![mn_site] =
                                       [site EXCEPT !.ran = ran, !.outcome = "failed",
                                                    !.failed_at = mn_step]]
                    /\ mn_pc' = "except"
                    /\ UNCHANGED mn_step
               ELSE IF mn_step < Len(Steps)
               THEN /\ mn_sites' = [mn_sites EXCEPT ![mn_site] = [site EXCEPT !.ran = ran]]
                    /\ mn_step' = mn_step + 1
                    /\ UNCHANGED mn_pc
               ELSE /\ mn_sites' = [mn_sites EXCEPT ![mn_site] =
                                       [site EXCEPT !.ran = ran, !.outcome = "ok"]]
                    /\ mn_pc' = "finally"
                    /\ UNCHANGED mn_step
    /\ UNCHANGED <<mnOthers, mn_n, mn_site, mn_context_closed, mn_browser_closed>>

\* except Exception: try: page.screenshot(...) except Exception: log.warning
MainExcept ==
    /\ mn_pc = "except"
    /\ \E saved \in BOOLEAN :
           mn_sites' = [mn_sites EXCEPT ![mn_site].screenshot =
                           IF saved THEN "saved" ELSE "failed"]
    /\ mn_pc' = "finally"
    /\ UNCHANGED <<mnOthers, mn_n, mn_site, mn_step, mn_context_closed, mn_browser_closed>>

\* variant of MainFinally: after a failed site the loop ends
MainFinallyStopsAfterFailure ==
    /\ mn_pc = "finally"
    /\ \E closed \in BOOLEAN :
           mn_sites' = [mn_sites EXCEPT ![mn_site].closed =
                           IF closed THEN "closed" ELSE "failed"]
    /\ IF mn_site < mn_n /\ mn_sites[mn_site].outcome = "ok"
       THEN /\ mn_site' = mn_site + 1
            /\ mn_pc' = "new_page"
       ELSE /\ mn_pc' = "close"
            /\ UNCHANGED mn_site
    /\ UNCHANGED <<mnOthers, mn_n, mn_step, mn_context_closed, mn_browser_closed>>

\* finally: try: page.close() except Exception: pass; then the next site
MainFinally ==
    /\ mn_pc = "finally"
    /\ \E closed \in BOOLEAN :
           mn_sites' = [mn_sites EXCEPT ![mn_site].closed =
                           IF closed THEN "closed" ELSE "failed"]
    /\ IF mn_site < mn_n
       THEN /\ mn_site' = mn_site + 1
            /\ mn_pc' = "new_page"
       ELSE /\ mn_pc' = "close"
            /\ UNCHANGED mn_site
    /\ UNCHANGED <<mnOthers, mn_n, mn_step, mn_context_closed, mn_browser_closed>>

\* context.close(); browser.close()
MainClose ==
    /\ mn_pc = "close"
    /\ mn_context_closed' = TRUE
    /\ mn_browser_closed' = TRUE
    /\ mn_pc' = "done"
    /\ UNCHANGED <<mnOthers, mn_n, mn_site, mn_step, mn_sites>>

MnNext ==
    \/ MainNewPage
    \/ MainStep
    \/ MainExcept
    \/ MainFinally
    \/ MainClose

SpecMain == MnInit /\ [][MnNext]_vars

\* ------------------------------ properties of main
SiteFinished(s) == s < mn_site \/ mn_pc \in {"close", "done"}

\* C22: a step of a site's workflow that raises ends that site only: the
\* steps of the site ran once each, in order, up to the one that raised and
\* none after it; the screenshot was attempted and the page's close was
\* attempted, whether or not they worked; every configured site is processed
\* whatever happened to the sites before it; and at the end the context and
\* the browser are closed.
C22_FailureAbortsOnlyThatSite ==
    /\ \A s \in 1..mn_n :
           LET site == mn_sites[s]
           IN  /\ Len(site.ran) <= Len(Steps)
               /\ \A k \in 1..Len(site.ran) : site.ran[k] = Steps[k]
               /\ site.outcome = "failed" => Len(site.ran) = site.failed_at
               /\ SiteFinished(s) =>
                      /\ site.outcome \in {"ok", "failed"}
                      /\ site.closed # "none"
                      /\ site.outcome = "failed" => site.screenshot # "none"
                      /\ site.outcome = "ok" => site.ran = Steps
    /\ mn_pc \in {"close", "done"} => mn_site = mn_n
    /\ mn_pc = "done" => (mn_context_closed /\ mn_browser_closed)

C22_Witness ==
    /\ mn_pc = "done"
    /\ mn_n = MaxSites
    /\ mn_sites[1].outcome = "failed"
    /\ Steps[mn_sites[1].failed_at] = "validation"
    /\ mn_sites[1].screenshot = "failed"
    /\ mn_sites[1].closed = "failed"
    /\ mn_sites[mn_n].outcome = "ok"

\* ------------------------------ wait_for_otp_from_pulseem: the query windows
PlInit ==
    /\ OtpIdle
    /\ CkIdle
    /\ SelIdle
    /\ FlIdle
    /\ FrIdle
    /\ ClIdle
    /\ MnIdle
    /\ pl_pc = "begin"
    /\ pl_now \in OTP_LOOKBACK_SECONDS..(OTP_LOOKBACK_SECONDS + MaxT)
    /\ pl_start = 0
    /\ pl_deadline = 0
    /\ pl_queries = <<>>

\* start = datetime.now() - timedelta(seconds=lookback_seconds);
\* deadline = time.time() + max_wait_seconds
PollBegin ==
    /\ pl_pc = "begin"
    /\ pl_start' = WindowStart(pl_now, OTP_LOOKBACK_SECONDS)
    /\ pl_deadline' = pl_now + OTP_MAX_WAIT_SECONDS
    /\ pl_pc' = "check"
    /\ UNCHANGED <<plOthers, pl_now, pl_queries>>

\* while time.time() < deadline: ... raise TimeoutError
PollCheck ==
    /\ pl_pc = "check"
    /\ pl_pc' = IF pl_now < pl_deadline THEN "query" ELSE "raised"
    /\ UNCHANGED <<plOthers, pl_now, pl_start, pl_deadline, pl_queries>>

\* variant of QueryStart: the start of the window taken anew in each iteration
QueryStartSliding(start, clock, lookback_seconds) == WindowStart(clock, lookback_seconds)

\* start_time=start: the local computed before the loop
QueryStart(start, clock, lookback_seconds) == start

\* end = datetime.now(); data = get_incoming_sms_report(auth, search_txt=vn,
\* start_time=start, end_time=end); the request takes some time
PollQuery ==
    /\ pl_pc = "query"
    /\ pl_queries' = Append(pl_queries,
           [start |-> format_time(QueryStart(pl_start, pl_now, OTP_LOOKBACK_SECONDS)),
            end |-> format_time(pl_now),
            at |-> pl_now,
            answer |-> "none"])
    /\ \E took \in 0..MaxOverrun : pl_now' = pl_now + took
    /\ pl_pc' = "answer"
    /\ UNCHANGED <<plOthers, pl_start, pl_deadline>>

\* the answers to a query, by what the iteration does with them
PollAnswers == {"no data", "no reports", "no fresh code", "code", "error"}

\* what the iteration does with the answer: it sleeps on "no data", on an
\* empty list and on a list without a fresh code, returns a code, or raises
PollAnswer ==
    /\ pl_pc = "answer"
    /\ \E answer \in PollAnswers :
           /\ pl_queries' = [pl_queries EXCEPT ![Len(pl_queries)].answer = answer]
           /\ pl_pc' = CASE answer = "code" -> "returned"
                         [] answer = "error" -> "raised"
                         [] OTHER -> "sleep"
    /\ UNCHANGED <<plOthers, pl_now, pl_start, pl_deadline>>

\* time.sleep(poll_every_seconds)
PollSleep ==
    /\ pl_pc = "sleep"
    /\ pl_now' = pl_now + OTP_POLL_SECONDS
    /\ pl_pc' = "check"
    /\ UNCHANGED <<plOthers, pl_start, pl_deadline, pl_queries>>

PlNext ==
    \/ PollBegin
    \/ PollCheck
    \/ PollQuery
    \/ PollAnswer
    \/ PollSleep

SpecPoll == PlInit /\ [][PlNext]_vars

\* ------------------------------ properties of the query windows
\* C23 as stated: every iteration queries the window [now - lookback, now]
\* with now the time of that iteration, so the start and the end of the
\* window both advance from one iteration to the next.
C23_WindowSlides ==
    /\ \A k \in 1..Len(pl_queries) :
           /\ pl_queries[k].start = pl_queries[k].at - OTP_LOOKBACK_SECONDS
           /\ pl_queries[k].end = pl_queries[k].at
    /\ \A k \in 2..Len(pl_queries) :
           /\ pl_queries[k].start > pl_queries[k - 1].start
           /\ pl_queries[k].end > pl_queries[k - 1].end

\* C23 amended: every iteration queries the window [t0 - lookback, now], with
\* t0 the time at which the call began and now the time of that iteration:
\* the end of the window advances with the clock from one iteration to the
\* next, the start stays where the first iteration had it.
C23_WindowGrows ==
    /\ \A k \in 1..Len(pl_queries) :
           /\ pl_queries[k].start = pl_queries[1].at - OTP_LOOKBACK_SECONDS
           /\ pl_queries[k].start = pl_deadline - OTP_MAX_WAIT_SECONDS - OTP_LOOKBACK_SECONDS
           /\ pl_queries[k].end = pl_queries[k].at
    /\ \A k \in 2..Len(pl_queries) : pl_queries[k].end > pl_queries[k - 1].end

C23_Witness ==
    /\ Len(pl_queries) >= 2
    /\ pl_queries[2].at > pl_queries[1].at
    /\ pl_queries[2].start = pl_queries[1].start

\* ------------------------------ properties settled after the others
\* C24: no cell of the row is clicked before the agent number of the row has
\* been read and found to be 165; a row whose agent number differs gets no
\* click at all.
C24_NoClickBeforeAgentCheck ==
    /\ fl_clicks # <<>> => (fl_agent # NoRead /\ AgentOk(fl_agent.text))
    /\ fl_error = "mismatch" => fl_clicks = <<>>

\* the steps of wait_for_otp_from_pulseem and of the except clause after it:
\* every request has a timeout and every sleep ends
AwaitStep ==
    \/ AwaitBegin
    \/ WaitLoopCheck
    \/ WaitPoll
    \/ WaitSleep
    \/ OtpExcept

SpecAwaitFair == Spec /\ WF_vars(AwaitStep)

\* a poll has just gone through a list that holds a message with a 4-8 digit
\* code and a timestamp after the checkpoint
PollHeldCodeAfterCheckpoint ==
    /\ CycleDone
    /\ \E m \in Reports :
           /\ HasCode(m)
           /\ Comparable(parse_reply_date(m.ReplyDate), InitialLastSeen(checkpoint_dt))
           /\ parse_reply_date(m.ReplyDate).t > InitialLastSeen(checkpoint_dt).t

\* C26: once a poll has returned a message that holds a code and is newer
\* than the checkpoint, wait_for_otp_from_pulseem does not end in
\* TimeoutError, in whatever order the messages become visible.
C26_CodeAfterCheckpointNeverTimesOut ==
    [](PollHeldCodeAfterCheckpoint => [](autoError # "TimeoutError"))

====
